---- MODULE Spec2Model ----
(***************************************************************************)
(* The two-stage layout optimizer of sheet/layout/optimizer.py.            *)
(*                                                                         *)
(* OptimizeProblem.run drives a bounded minimizer over the coarse          *)
(* parameters; each coarse trial drives a second minimization over the     *)
(* fine parameters.  The minimizer (scipy's Powell method) and the three   *)
(* hooks of a concrete problem (score, stage2parameters, validity_error)   *)
(* are not part of the repository: they are the environment of run.        *)
(*                                                                         *)
(*   - The minimizer evaluates its objective first at the initial guess    *)
(*     and then at points of [0,1] per axis, and stops either with         *)
(*     success, returning one of the points it evaluated together with     *)
(*     the value it saw there, or with failure.  An objective value that   *)
(*     is no number makes it raise.  It needs at least one axis.           *)
(*   - The hooks return any value of their result type.                    *)
(*                                                                         *)
(* Three settings (mode) are explored, each by its own specification:      *)
(*   free    one activation of run, over all the inputs (Spec);            *)
(*   nested  two activations on one problem object, the second started     *)
(*           from inside the first one's score callback and run to its     *)
(*           end before the callback returns (SpecNested);                 *)
(*   pure    a run and its repetition with the same initial guess, with    *)
(*           hooks that are functions (the same arguments give the same    *)
(*           result) and a deterministic minimizer (the same initial       *)
(*           guess and the same observed values give the same next step),  *)
(*           both fixed lazily, the first time an argument is seen         *)
(*           (SpecPure).                                                   *)
(* The settings with two activations draw the parameter sets from          *)
(* SmallParamSets and the validity errors from SmallErrVals, and start     *)
(* the second activation with the initial guess of the first; the nested   *)
(* setting draws the scores from SmallScoreVals.                           *)
(*                                                                         *)
(* Four more settings leave run alone:                                      *)
(*   calls   calculate_unused_width_for_group is called on inputs of its   *)
(*           own (SpecStrip);                                              *)
(*   tree    placement nodes are built, grouped and notified of their      *)
(*           parent's size (SpecTree);                                     *)
(*   move    placement nodes are built and grouped, and the tree they      *)
(*           form is moved (SpecMove);                                     *)
(*   size    placement nodes are built and grouped, and one error          *)
(*           function is called or penalties are returned (SpecSize).      *)
(*                                                                         *)
(* SpecCodec is the free setting with one call of a codec function in      *)
(* place of the run.                                                       *)
(* SpecFootprint (strips) calls _unused_horizontal_strip on inputs of its   *)
(* own.                                                                    *)
(*                                                                         *)
(* The sheet reader of sheet/reader.py (read, SpecRead): docutils walks    *)
(* the document and calls a handler of SheetVisitor on entering a node     *)
(* and one on leaving it, the node entered last being left first; the      *)
(* walk ends with the first exception a handler lets out.  The blocks and  *)
(* sections of model.py are kept as what the reader does to them.          *)
(*                                                                         *)
(* Floats: a normalized coordinate is an exact fraction <<num, den>>; a    *)
(* score is an integer (1e6 is 1000000); where the rounding of doubles    *)
(* decides (PenaltyDouble), a penalty is counted in units of the last      *)
(* place above 1e6.                                                        *)
(***************************************************************************)
EXTENDS Integers, Sequences, FiniteSets, TLC

\* ------------------------------------------------------------- bounds
\* Objective evaluations, of both stages together, one run may make.
MaxEvals == 3
\* The minimizer proposes the fractions 0/FracDen .. FracDen/FracDen.
FracDen == 2
\* Largest upper bound of a parameter set.
MaxHigh == 2
\* Largest coordinate of a rectangle.
MaxCoord == 4
\* Largest number of children of a call or of a group.
MaxKids == 2
\* Largest number of placement nodes.
MaxNodes == 3
\* Largest number of moves.
MaxMoves == 2
\* Nodes of the document entered and not yet left.
MaxDepth == 2
\* Sections the reader adds to a sheet.
MaxSections == 2
\* Calls the reader makes on one block.
MaxBlockCalls == 2

Frames == {1, 2}

\* Python's None, and a present optional value.
None == << >>
Some(v) == <<v>>

\* ------------------------------------------------------------- codec
RECURSIVE GCD(_, _)
GCD(a, b) == IF b = 0 THEN a ELSE GCD(b, a % b)

\* The fraction n/d in lowest terms (n >= 0, d > 0).
Frac(n, d) == LET g == GCD(n, d) IN <<n \div g, d \div g>>

\* Python's round() of n/d: to the nearest integer, a tie to the even one.
RoundHalfEven(n, d) ==
    LET q == n \div d
        r == n % d
    IN  IF 2 * r < d THEN q
        ELSE IF 2 * r > d THEN q + 1
        ELSE IF q % 2 = 0 THEN q ELSE q + 1

\* The ValueError both codec directions raise.
BoundsError(a, b) == a > b

\* from_fraction with the offset forgotten: round(x * (b - a)).
from_fraction_unshifted(x, a, b) ==
    CASE a = b -> a
      [] a < b -> RoundHalfEven(x[1] * (b - a), x[2])

\* _from_fraction rounding the fraction itself on a degenerate axis.
from_fraction_rounded(x, a, b) ==
    CASE a = b -> RoundHalfEven(x[1], x[2])
      [] a < b -> RoundHalfEven(a * x[2] + x[1] * (b - a), x[2])

from_fraction(x, a, b) ==
    CASE a = b -> a
      [] a < b -> RoundHalfEven(a * x[2] + x[1] * (b - a), x[2])

\* _to_fraction with the offset forgotten: x / (b - a).
to_fraction_unshifted(v, a, b) ==
    CASE a = b -> <<1, 2>>
      [] a < b -> Frac(v, b - a)

to_fraction(v, a, b) ==
    CASE a = b -> <<1, 2>>
      [] a < b -> Frac(v - a, b - a)

OptParams(v, lo, hi) == [value |-> v, low |-> lo, high |-> hi]

\* OptParams.__len__
OptLen(p) == Len(p.value)

params2array(p) == [k \in 1..OptLen(p) |-> to_fraction(p.value[k], p.low, p.high)]

array2tuple(x, base) == [k \in 1..Len(x) |-> from_fraction(x[k], base.low, base.high)]

array2params(x, base) == OptParams(array2tuple(x, base), base.low, base.high)

\* `if opt1:` -- an OptParams is true when it is present and its __len__ is not 0.
Truthy(opt) == opt # None /\ OptLen(opt[1]) # 0

\* ------------------------------------------------------------- inputs
\* Bounds of a parameter set: the proper ranges up to MaxHigh, a degenerate axis,
\* and malformed bounds.
BoundPairs == { <<l, MaxHigh>> : l \in 0..(MaxHigh - 1) } \cup { <<1, 1>>, <<1, 0>> }

ValueTuples(a, b, n) == [1..n -> (IF a <= b THEN a..b ELSE {a})]

\* The parameter sets a caller may hand over: values inside their bounds when the
\* bounds are well formed; malformed bounds included.  One axis over each of
\* BoundPairs, and two axes, one at each end of the range of two values.
ParamSets ==
    UNION { { OptParams(v, b[1], b[2]) : v \in ValueTuples(b[1], b[2], 1) } :
            b \in BoundPairs }
    \cup { OptParams(<<MaxHigh - 1, MaxHigh>>, MaxHigh - 1, MaxHigh) }

\* The fine guesses stage2parameters hands over have one axis: a proper range,
\* the degenerate one, or malformed bounds.
FineParamSets ==
    { p \in ParamSets : OptLen(p) = 1 /\ (p.low = MaxHigh - 1 \/ p.high <= 1) }

\* stage2parameters returns Optional[OptParams].
FineInits == {None} \cup { Some(p) : p \in FineParamSets }

\* The inputs of the settings with two activations: one axis with two values.
SmallParamSets ==
    { p \in ParamSets : p.low = MaxHigh - 1 /\ p.high = MaxHigh /\ OptLen(p) = 1 }

\* validity_error: how far past validity, 0 when valid.
ErrVals == {0, 1, 2}

SmallErrVals == {0, 1}

\* score
ScoreVals == {0, 3}

SmallScoreVals == {3}

\* The points the minimizer may propose after the initial guess.
GridVecs(n) == [1..n -> { Frac(k, FracDen) : k \in 0..FracDen }]

\* ------------------------------------------------------------- state
VARIABLES
    mode,         \* the setting explored: "free", "nested", "pure", "calls", ...
    pc,           \* where each activation of run is
    x1init,       \* run's argument
    best_combos,  \* run's dictionary: coarse tuple -> (f, params2)
    trials1,      \* the coarse trials stage1func has answered, in order
    cur,          \* the coarse trial _stage2optimize is working on
    trials2,      \* the fine trials stage2func has answered for cur, in order
    pend,         \* the fine trial whose score call is in progress
    s1,           \* what the stage-1 minimization reported
    result,       \* what run returned
    evals,        \* objective evaluations the run's minimizations have made
    spMemo,       \* pure: stage2parameters so far
    veMemo,       \* pure: validity_error so far
    scMemo,       \* pure: score so far
    minMemo,      \* pure: the minimizer's steps so far
    call,         \* the last call of a function on its own: name, arguments, outcome
    nodes,        \* the placement nodes built so far, a child before its group
    made,         \* each node as notified, at its place when its tree was built
    shift,        \* the sum of the moves of each node since its tree was built
    moves,        \* how many moves were made
    visitor,      \* the SheetVisitor: its fields, its Status and the sheet's sections
    raised,       \* what ended the walk of the document, "" while it goes on
    last          \* the handler called last and whether it finished a section

\* The variables of the settings that call single functions, and of the
\* placement tree.
CallVars == <<call>>

TreeVars == <<nodes, made, shift, moves>>

\* The variables of the sheet reader.
ReadVars == <<visitor, raised, last>>

vars == <<mode, pc, x1init, best_combos, trials1, cur, trials2, pend, s1, result,
          evals, spMemo, veMemo, scMemo, minMemo, CallVars, TreeVars, ReadVars>>

\* The variables of run.
RunVars == <<pc, x1init, best_combos, trials1, cur, trials2, pend, s1, result,
             evals, spMemo, veMemo, scMemo, minMemo>>

\* What a call ended with: a value, or an exception.
Returned(v) == [raised |-> "", value |-> v]

Raised(e) == [raised |-> e, value |-> 0]

NoCall == [fn |-> "", args |-> << >>, out |-> Returned(0)]

\* The hooks are functions and the minimizer is deterministic.
pure == mode = "pure"

EmptyMap == << >>

\* Put as dict.setdefault: an existing entry is kept.
PutFirst(m, k, v) == [x \in (DOMAIN m) \cup {k} |-> IF x \in DOMAIN m THEN m[x] ELSE v]

Put(m, k, v) == [x \in (DOMAIN m) \cup {k} |-> IF x = k THEN v ELSE m[x]]

NoParams == OptParams(<< >>, 0, 0)
NoCur == [x |-> << >>, c |-> << >>, p2 |-> NoParams, err0 |-> 0]
NoPend == [x |-> << >>, x2 |-> << >>, vp |-> NoParams, err |-> 0]
NoResult == <<None, None, None>>

\* The penalty without the square, and without the 1.
PenaltyLinear(err) == 1000000 * (1 + err)

PenaltyScaled(err) == 1000000 * err * err

\* `1e6 * (1 + err * err)`
Penalty(err) == 1000000 * (1 + err * err)

\* The validity test off by one.
InvalidAboveOne(err) == err > 1

\* `if err > 0:`
Invalid(err) == err > 0

\* ------------------------------------------------------------- environment
\* A step of the minimizer: evaluate x, or stop (with success at its k-th
\* evaluation, or with failure).
EvalStep(x) == [kind |-> "eval", x |-> x, ok |-> FALSE, k |-> 0]
StopStep(ok, k) == [kind |-> "stop", x |-> << >>, ok |-> ok, k |-> k]

\* The values the objective returned so far.
Hist(trials) == [k \in 1..Len(trials) |-> trials[k].f]

\* A deterministic minimizer repeats the step it took from the same initial guess
\* after the same observations.
MinAllows(x0, trials, step) ==
    pure /\ <<x0, Hist(trials)>> \in DOMAIN minMemo => minMemo[<<x0, Hist(trials)>>] = step

MinNoted(x0, trials, step) ==
    IF pure THEN Put(minMemo, <<x0, Hist(trials)>>, step) ELSE minMemo

\* The first evaluation is at the initial guess, the later ones anywhere in the box.
Proposals(x0, trials) == IF Len(trials) = 0 THEN {x0} ELSE GridVecs(Len(x0))

HookChoices(memo, arg, all) == IF pure /\ arg \in DOMAIN memo THEN {memo[arg]} ELSE all

HookNoted(memo, arg, v) == IF pure THEN Put(memo, arg, v) ELSE memo

\* An activation may take a step: the nested one while the outer one is inside
\* score, the outer one while no nested one is under way.
CanStep(i) ==
    IF i = 1 THEN pc[2] \in {"idle", "returned"}
    ELSE CASE mode = "free" -> FALSE
           [] mode = "nested" -> pc[1] = "score"
           [] mode = "pure" -> pc[1] \in {"done", "raised"}

\* What the caller and the hooks hand over in the current setting.
ParamChoices == IF mode = "free" THEN ParamSets ELSE SmallParamSets

FineChoices == IF mode = "free" THEN FineInits ELSE { Some(p) : p \in SmallParamSets }

ErrChoices == IF mode = "free" THEN ErrVals ELSE SmallErrVals

ScoreChoices == IF mode = "nested" THEN SmallScoreVals ELSE ScoreVals

\* ------------------------------------------------------------- run
\* _minimize decoding the minimizer's point whether or not it succeeded.
MinimizeResultAlways(ok, fun, x, x_init) ==
    <<IF ok THEN Some(fun) ELSE None, Some(array2params(x, x_init))>>

\* _minimize's result tuple.
MinimizeResult(ok, fun, x, x_init) ==
    IF ok THEN <<Some(fun), Some(array2params(x, x_init))>> ELSE <<None, None>>

\* One dictionary for all activations: a write lands in each of them.
CacheWriteShared(bc, i, c, e) == [j \in Frames |-> Put(bc[j], c, e)]

\* `best_combos[params1] = (f, params2)` in the dictionary of activation i.
CacheWrite(bc, i, c, e) == [bc EXCEPT ![i] = Put(bc[i], c, e)]

\* A coarse trial as answered: the point, its tuple, the entry stored for it, the
\* validity error of the fine guess, whether the stage-2 minimization ran, the
\* bounds of the fine guess it ran on, and (pure) the fine trials it made.
TrialRec(x, c, e, err0, ran2, b2, inner) ==
    [x |-> x, c |-> c, f |-> e[1], p |-> e[2], err0 |-> err0, ran2 |-> ran2,
     b2 |-> b2, inner |-> inner]

FineRec(x, x2, vp, err, scored, f) ==
    [x |-> x, x2 |-> x2, vp |-> vp, err |-> err, scored |-> scored, f |-> Some(f)]

\* Status(): no section, no block, an empty stack; the dataclass has no field
\* `state`, the attribute is absent until something assigns it.
Status == [state |-> "unset", section |-> None, block |-> None, stack |-> << >>]

\* SheetVisitor.__init__, given a new Sheet; sheet is the length of
\* sheet.content.
NewSheetVisitor ==
    [section_layout_method |-> "stack",
     title_display_method |-> "banner",
     style |-> "default",
     current_style_def_name |-> None,
     state |-> "READY",
     status |-> Status,
     sheet |-> 0]

\* No handler was called yet.
NoVisit == [handler |-> "", finished |-> FALSE, pending |-> FALSE, after_finish |-> FALSE]

Init0 ==
    /\ pc = [i \in Frames |-> "idle"]
    /\ x1init = [i \in Frames |-> NoParams]
    /\ best_combos = [i \in Frames |-> EmptyMap]
    /\ trials1 = [i \in Frames |-> << >>]
    /\ cur = [i \in Frames |-> NoCur]
    /\ trials2 = [i \in Frames |-> << >>]
    /\ pend = [i \in Frames |-> NoPend]
    /\ s1 = [i \in Frames |-> "none"]
    /\ result = [i \in Frames |-> NoResult]
    /\ evals = [i \in Frames |-> 0]
    /\ spMemo = EmptyMap
    /\ veMemo = EmptyMap
    /\ scMemo = EmptyMap
    /\ minMemo = EmptyMap
    /\ call = NoCall
    /\ nodes = << >>
    /\ made = << >>
    /\ shift = << >>
    /\ moves = 0
    /\ visitor = NewSheetVisitor
    /\ raised = ""
    /\ last = NoVisit

Init == mode = "free" /\ Init0

InitNested == mode = "nested" /\ Init0

InitPure == mode = "pure" /\ Init0

\* run is called: a fresh dictionary, then _minimize('stage1', ...) converts the
\* initial guess, which raises on malformed bounds.
Run(i) ==
    /\ pc[i] = "idle"
    /\ CanStep(i)
    /\ \E p \in ParamChoices :
        /\ i = 2 => p = x1init[1]
        /\ x1init' = [x1init EXCEPT ![i] = p]
        /\ pc' = [pc EXCEPT ![i] = IF BoundsError(p.low, p.high) THEN "raised" ELSE "min1"]
    /\ best_combos' = [best_combos EXCEPT ![i] = EmptyMap]
    /\ UNCHANGED <<ReadVars, CallVars, TreeVars, mode, trials1, cur, trials2, pend, s1, result, evals,
                   spMemo, veMemo, scMemo, minMemo>>

\* stage1func for the point x: _stage2optimize derives the fine guess and checks
\* its validity.  An invalid guess is answered with the penalty at once, which
\* stage1func stores and returns; otherwise the stage-2 minimization starts (its
\* conversion of the guess may raise).
Stage1Func(i, x) ==
    LET c == array2tuple(x, x1init[i]) IN
    \E p2 \in HookChoices(spMemo, c, FineChoices) :
    \E err \in HookChoices(veMemo, p2, ErrChoices) :
        /\ spMemo' = HookNoted(spMemo, c, p2)
        /\ veMemo' = HookNoted(veMemo, p2, err)
        /\ IF Invalid(err)
           THEN LET e == <<Some(Penalty(err)), None>> IN
                /\ best_combos' = CacheWrite(best_combos, i, c, e)
                /\ trials1' = [trials1 EXCEPT ![i] =
                                 Append(@, TrialRec(x, c, e, err, FALSE, << >>, << >>))]
                /\ UNCHANGED <<pc, cur>>
           ELSE /\ pc' = [pc EXCEPT ![i] =
                            IF p2 = None \/ BoundsError(p2[1].low, p2[1].high)
                            THEN "raised" ELSE "min2"]
                /\ cur' = [cur EXCEPT ![i] =
                             [x |-> x, c |-> c,
                              p2 |-> IF p2 = None THEN NoParams ELSE p2[1],
                              err0 |-> err]]
                /\ UNCHANGED <<best_combos, trials1>>

\* Stage1Trial with a dictionary that outlives run and is consulted first: a
\* tuple an earlier activation answered is answered from its entry, and
\* _stage2optimize is not called for it.
Stage1TrialStale(i) ==
    /\ pc[i] = "min1"
    /\ CanStep(i)
    /\ evals[i] < MaxEvals
    /\ evals' = [evals EXCEPT ![i] = @ + 1]
    /\ LET x0 == params2array(x1init[i]) IN
       \E x \in Proposals(x0, trials1[i]) :
        /\ MinAllows(x0, trials1[i], EvalStep(x))
        /\ minMemo' = MinNoted(x0, trials1[i], EvalStep(x))
        /\ LET c == array2tuple(x, x1init[i]) IN
           IF i # 1 /\ c \in DOMAIN best_combos[1]
           THEN /\ best_combos' = CacheWrite(best_combos, i, c, best_combos[1][c])
                /\ trials1' = [trials1 EXCEPT ![i] =
                                 Append(@, TrialRec(x, c, best_combos[1][c], 0, FALSE,
                                                    << >>, << >>))]
                /\ UNCHANGED <<pc, cur, spMemo, veMemo>>
           ELSE Stage1Func(i, x)
    /\ UNCHANGED <<ReadVars, CallVars, TreeVars, mode, x1init, trials2, pend, s1, result, scMemo>>

\* The stage-1 minimizer evaluates a point: adapter decodes it and calls
\* stage1func.
Stage1Trial(i) ==
    /\ pc[i] = "min1"
    /\ CanStep(i)
    /\ evals[i] < MaxEvals
    /\ evals' = [evals EXCEPT ![i] = @ + 1]
    /\ LET x0 == params2array(x1init[i]) IN
       \E x \in Proposals(x0, trials1[i]) :
        /\ MinAllows(x0, trials1[i], EvalStep(x))
        /\ minMemo' = MinNoted(x0, trials1[i], EvalStep(x))
        /\ Stage1Func(i, x)
    /\ UNCHANGED <<ReadVars, CallVars, TreeVars, mode, x1init, trials2, pend, s1, result, scMemo>>

\* The stage-2 minimizer evaluates a point: adapter decodes it against the fine
\* guess's bounds and stage2func checks its validity.  An invalid point is answered
\* with the penalty; for a valid one score is called.
Stage2Trial(i) ==
    /\ pc[i] = "min2"
    /\ CanStep(i)
    /\ evals[i] < MaxEvals
    /\ evals' = [evals EXCEPT ![i] = @ + 1]
    /\ LET x0 == params2array(cur[i].p2) IN
       \E x \in Proposals(x0, trials2[i]) :
        /\ MinAllows(x0, trials2[i], EvalStep(x))
        /\ minMemo' = MinNoted(x0, trials2[i], EvalStep(x))
        /\ LET x2 == array2tuple(x, cur[i].p2)
               vp == OptParams(x2, cur[i].p2.low, cur[i].p2.high)
           IN
           \E err \in HookChoices(veMemo, Some(vp), ErrChoices) :
            /\ veMemo' = HookNoted(veMemo, Some(vp), err)
            /\ IF Invalid(err)
               THEN /\ trials2' = [trials2 EXCEPT ![i] =
                                     Append(@, FineRec(x, x2, vp, err, FALSE, Penalty(err)))]
                    /\ UNCHANGED <<pc, pend>>
               ELSE /\ pc' = [pc EXCEPT ![i] = "score"]
                    /\ pend' = [pend EXCEPT ![i] = [x |-> x, x2 |-> x2, vp |-> vp, err |-> err]]
                    /\ UNCHANGED trials2
    /\ UNCHANGED <<ReadVars, CallVars, TreeVars, mode, x1init, best_combos, trials1, cur, s1, result, spMemo, scMemo>>

\* The activation ended and its frame is gone.
Discarded(f, i, v) == [f EXCEPT ![i] = v]

\* score returns a value to stage2func, which hands it to the minimizer.  A nested
\* run that score started has returned by then.
ScoreReturn(i) ==
    /\ pc[i] = "score"
    /\ IF i = 1 THEN pc[2] \in {"idle", "returned", "done"} ELSE TRUE
    /\ \E v \in HookChoices(scMemo, <<cur[i].c, pend[i].x2>>, ScoreChoices) :
        /\ scMemo' = HookNoted(scMemo, <<cur[i].c, pend[i].x2>>, v)
        /\ trials2' = [trials2 EXCEPT
                         ![i] = Append(@, FineRec(pend[i].x, pend[i].x2, pend[i].vp,
                                                   pend[i].err, TRUE, v)),
                         ![2] = IF i = 1 THEN << >> ELSE @]
    /\ pend' = [pend EXCEPT ![i] = NoPend]
    /\ IF i = 1 /\ pc[2] = "done"
       THEN /\ pc' = [pc EXCEPT ![1] = "min2", ![2] = "returned"]
            /\ x1init' = Discarded(x1init, 2, NoParams)
            /\ best_combos' = Discarded(best_combos, 2, EmptyMap)
            /\ trials1' = Discarded(trials1, 2, << >>)
            /\ s1' = Discarded(s1, 2, "none")
            /\ result' = Discarded(result, 2, NoResult)
            /\ evals' = Discarded(evals, 2, 0)
       ELSE /\ pc' = [pc EXCEPT ![i] = "min2"]
            /\ UNCHANGED <<x1init, best_combos, trials1, s1, result, evals>>
    /\ UNCHANGED <<ReadVars, CallVars, TreeVars, mode, cur, spMemo, veMemo, minMemo>>

\* The nested run raised inside score: nothing on the way catches the exception,
\* and the outer run ends with it.
ScoreRaise(i) ==
    /\ i = 1
    /\ pc[1] = "score"
    /\ pc[2] = "raised"
    /\ pc' = [pc EXCEPT ![1] = "raised", ![2] = "returned"]
    /\ x1init' = Discarded(x1init, 2, NoParams)
    /\ best_combos' = Discarded(best_combos, 2, EmptyMap)
    /\ trials1' = Discarded(trials1, 2, << >>)
    /\ trials2' = Discarded(trials2, 2, << >>)
    /\ cur' = Discarded(cur, 2, NoCur)
    /\ pend' = Discarded(pend, 2, NoPend)
    /\ s1' = Discarded(s1, 2, "none")
    /\ result' = Discarded(result, 2, NoResult)
    /\ evals' = Discarded(evals, 2, 0)
    /\ UNCHANGED <<ReadVars, CallVars, TreeVars, mode, spMemo, veMemo, scMemo, minMemo>>

\* The stage-2 minimizer stops.  _minimize returns (fun, params) on success and
\* (None, None) on failure; _stage2optimize returns that to stage1func, which
\* stores it under the coarse tuple and returns its first component to the
\* stage-1 minimizer.
Stage2Finish(i) ==
    /\ pc[i] = "min2"
    /\ CanStep(i)
    /\ Len(trials2[i]) >= 1
    /\ LET x0 == params2array(cur[i].p2) IN
       \E ok \in BOOLEAN, k \in 1..Len(trials2[i]) :
        /\ ~ok => k = 1
        /\ MinAllows(x0, trials2[i], StopStep(ok, k))
        /\ minMemo' = MinNoted(x0, trials2[i], StopStep(ok, k))
        /\ LET e == MinimizeResult(ok, trials2[i][k].f[1], trials2[i][k].x, cur[i].p2) IN
            /\ best_combos' = CacheWrite(best_combos, i, cur[i].c, e)
            /\ trials1' = [trials1 EXCEPT ![i] =
                             Append(@, TrialRec(cur[i].x, cur[i].c, e, cur[i].err0,
                                                TRUE, <<cur[i].p2.low, cur[i].p2.high>>,
                                                IF pure THEN trials2[i] ELSE << >>))]
            /\ pc' = [pc EXCEPT ![i] = IF e[1] = None THEN "raised" ELSE "min1"]
    /\ cur' = [cur EXCEPT ![i] = NoCur]
    /\ trials2' = [trials2 EXCEPT ![i] = << >>]
    /\ UNCHANGED <<ReadVars, CallVars, TreeVars, mode, x1init, pend, s1, result, evals, spMemo, veMemo, scMemo>>

\* The stage-1 minimizer stops and run returns: on success the optimum's entry of
\* the dictionary, on failure three Nones.
Stage1Finish(i) ==
    /\ pc[i] = "min1"
    /\ CanStep(i)
    /\ Len(trials1[i]) >= 1
    /\ LET x0 == params2array(x1init[i]) IN
       \E ok \in BOOLEAN, k \in 1..Len(trials1[i]) :
        /\ ~ok => k = 1
        /\ MinAllows(x0, trials1[i], StopStep(ok, k))
        /\ minMemo' = MinNoted(x0, trials1[i], StopStep(ok, k))
        /\ s1' = [s1 EXCEPT ![i] = IF ok THEN "ok" ELSE "fail"]
        /\ LET r == MinimizeResult(ok, trials1[i][k].f[1], trials1[i][k].x, x1init[i])
               opt1 == r[2]
           IN  IF Truthy(opt1)
               THEN IF opt1[1].value \in DOMAIN best_combos[i]
                    THEN /\ result' = [result EXCEPT ![i] =
                                         <<best_combos[i][opt1[1].value][1], opt1,
                                           best_combos[i][opt1[1].value][2]>>]
                         /\ pc' = [pc EXCEPT ![i] = "done"]
                    ELSE /\ pc' = [pc EXCEPT ![i] = "raised"]
                         /\ UNCHANGED result
               ELSE /\ result' = [result EXCEPT ![i] = NoResult]
                    /\ pc' = [pc EXCEPT ![i] = "done"]
    /\ UNCHANGED <<ReadVars, CallVars, TreeVars, mode, x1init, best_combos, trials1, cur, trials2, pend, evals,
                   spMemo, veMemo, scMemo>>

\* ------------------------------------------------------------- claims
Trials(i) == { trials1[i][k] : k \in 1..Len(trials1[i]) }

FineTrials(i) == { trials2[i][k] : k \in 1..Len(trials2[i]) }

InStage2(i) == pc[i] \in {"min2", "score"}

\* The entry stage1func stored last for coarse tuple c.
LastEntry(i, c) ==
    LET k == CHOOSE k \in 1..Len(trials1[i]) :
                 /\ trials1[i][k].c = c
                 /\ \A j \in (k + 1)..Len(trials1[i]) : trials1[i][j].c # c
    IN  <<trials1[i][k].f, trials1[i][k].p>>

InRange(v, lo, hi) == \A k \in 1..Len(v) : v[k] \in lo..hi

\* C1: a coarse trial whose stage-2 minimization failed to converge is answered to
\* the stage-1 minimizer with a number (a large finite score), never with None.
C1_FailedStage2IsScored ==
    \A i \in Frames : \A t \in Trials(i) : (t.ran2 /\ t.p = None) => t.f # None

\* C2: when the stage-1 minimization succeeds, run returns at once (no lookup
\* failure, no further stage-2 call) the optimum together with the entry its
\* dictionary holds for the optimum's tuple, and that entry is what stage1func
\* stored there last, i.e. what _stage2optimize returned for it.
C2_ResultIsCachedEntry ==
    \A i \in Frames :
        s1[i] = "ok" =>
            /\ pc[i] = "done"
            /\ result[i][2] # None
            /\ LET c == result[i][2][1].value IN
                /\ c \in DOMAIN best_combos[i]
                /\ result[i] = <<best_combos[i][c][1], result[i][2], best_combos[i][c][2]>>
                /\ best_combos[i][c] = LastEntry(i, c)

\* A run that succeeded after answering the optimum's tuple twice, differently.
C2_Witness ==
    /\ pc[1] = "done" /\ s1[1] = "ok" /\ result[1][3] # None
    /\ \E t, u \in Trials(1) : t.c = u.c /\ t.f # u.f

\* C3: when the stage-1 minimization fails to converge run returns, without
\* raising, None in all three positions; when it succeeded the coarse result is
\* not None.
C3_FailureIsAbsentResult ==
    \A i \in Frames :
        /\ s1[i] = "fail" => (pc[i] = "done" /\ result[i] = <<None, None, None>>)
        /\ (s1[i] = "ok" /\ pc[i] = "done") => result[i][2] # None

C3_Witness == s1[1] = "fail" /\ pc[1] = "done" /\ Len(trials1[1]) >= 2

\* C4: a coarse trial whose fine guess has validity error err > 0 is answered with
\* (1e6 * (1 + err * err), None), and neither the stage-2 minimization nor score
\* is entered for it.
C4_InvalidGuessShortCircuits ==
    \A i \in Frames :
        /\ \A t \in Trials(i) :
               t.err0 > 0 => (/\ t.f = Some(1000000 * (1 + t.err0 * t.err0))
                              /\ t.p = None
                              /\ ~t.ran2)
        /\ InStage2(i) => ~(cur[i].err0 > 0)

C4_Witness == \E t \in Trials(1) : t.err0 = 2 /\ ~t.ran2

\* C5: validity_error is asked about each fine trial with the bounds of the fine
\* guess; score is entered only for a fine trial whose validity error is not
\* greater than 0, and a fine trial with error err > 0 is answered with exactly
\* 1e6 * (1 + err * err) without a score call.
C5_ScoreOnlyForValidTrials ==
    \A i \in Frames :
        /\ \A t \in FineTrials(i) :
               /\ t.vp = OptParams(t.x2, cur[i].p2.low, cur[i].p2.high)
               /\ t.err > 0 => (t.f = Some(1000000 * (1 + t.err * t.err)) /\ ~t.scored)
               /\ t.scored => ~(t.err > 0)
        /\ pc[i] = "score" =>
               /\ ~(pend[i].err > 0)
               /\ pend[i].vp = OptParams(pend[i].x2, cur[i].p2.low, cur[i].p2.high)

C5_Witness ==
    \E t, u \in FineTrials(1) : t.err = 2 /\ ~t.scored /\ u.scored /\ u.err = 0

\* C6: with low <= high, every coarse tuple handed to stage1func and every fine
\* tuple handed to stage2func, validity_error and score has one integer per axis
\* of the initial guess, each inside the bounds of that guess; every parameter
\* set _minimize or run returns lies inside, and carries, the bounds of the
\* initial guess of its stage.
C6_TrialsStayInBounds ==
    \A i \in Frames :
        x1init[i].low <= x1init[i].high =>
            /\ \A t \in Trials(i) :
                   /\ Len(t.c) = OptLen(x1init[i])
                   /\ InRange(t.c, x1init[i].low, x1init[i].high)
                   /\ t.p # None =>
                          /\ <<t.p[1].low, t.p[1].high>> = t.b2
                          /\ InRange(t.p[1].value, t.b2[1], t.b2[2])
            /\ InStage2(i) =>
                   /\ InRange(cur[i].c, x1init[i].low, x1init[i].high)
                   /\ \A t \in FineTrials(i) :
                          /\ Len(t.x2) = OptLen(cur[i].p2)
                          /\ InRange(t.x2, cur[i].p2.low, cur[i].p2.high)
            /\ pc[i] = "score" =>
                   /\ Len(pend[i].x2) = OptLen(cur[i].p2)
                   /\ InRange(pend[i].x2, cur[i].p2.low, cur[i].p2.high)
            /\ result[i][2] # None =>
                   /\ result[i][2][1].low = x1init[i].low
                   /\ result[i][2][1].high = x1init[i].high
                   /\ InRange(result[i][2][1].value, x1init[i].low, x1init[i].high)
            /\ result[i][3] # None =>
                   InRange(result[i][3][1].value, result[i][3][1].low, result[i][3][1].high)

\* A run over a proper range that does not start at 0 returned both optima.
C6_Witness ==
    /\ pc[1] = "done" /\ result[1][2] # None /\ result[1][3] # None
    /\ 0 < x1init[1].low /\ x1init[1].low < x1init[1].high
    /\ result[1][3][1].low < result[1][3][1].high

\* C7: with hooks that are functions and a deterministic minimizer, a run and
\* its repetition with the same initial guess make the same coarse trials, each
\* with the same fine trials, and end the same way with the same result.
Ended(i) == pc[i] \in {"done", "raised"}

C7_RepetitionIsIdentical ==
    (Ended(1) /\ Ended(2)) =>
        /\ pc[2] = pc[1]
        /\ s1[2] = s1[1]
        /\ trials1[2] = trials1[1]
        /\ result[2] = result[1]

\* The repetition of a run that succeeded after a full stage-2 search has ended.
C7_Witness ==
    /\ pc[1] = "done" /\ pc[2] = "done" /\ s1[2] = "ok"
    /\ evals[2] = MaxEvals
    /\ \E t \in Trials(2) : t.ran2 /\ Len(t.inner) >= 1
    /\ \E t \in Trials(2) : ~t.ran2

\* C8: the dictionary of each activation holds exactly the entries its own
\* stage1func stored, under the tuples of its own coarse trials, whatever a run
\* nested in it (or around it) stores; and what a run returns is its own entry.
C8_OwnDictionaryOnly ==
    \A i \in Frames :
        /\ DOMAIN best_combos[i] = { t.c : t \in Trials(i) }
        /\ \A c \in DOMAIN best_combos[i] : best_combos[i][c] = LastEntry(i, c)
        /\ (pc[i] = "done" /\ result[i][2] # None) =>
               <<result[i][1], result[i][3]>> = LastEntry(i, result[i][2][1].value)

\* The nested run has ended inside the outer run's score call, and the two
\* dictionaries hold different entries for the same tuple.
C8_Witness ==
    /\ pc[1] = "score" /\ pc[2] = "done" /\ result[2][2] # None
    /\ \E c \in (DOMAIN best_combos[1]) \cap (DOMAIN best_combos[2]) :
           best_combos[1][c] # best_combos[2][c]

\* validity_error has returned 1 for every fine guess of the run so far: each
\* coarse trial answered had error 1, and none got past the validity test.
AllGuessesInvalid(i) ==
    /\ Len(trials1[i]) >= 1
    /\ cur[i] = NoCur
    /\ \A t \in Trials(i) : t.err0 = 1

\* C9: as long as validity_error has returned 1 for every fine guess of a run,
\* every coarse trial was answered with (2e6, None), nothing raised, and a run
\* whose stage-1 minimization succeeded returned the optimum with score 2e6 and
\* no fine result.

Rect(l, t, r, b) == [left |-> l, top |-> t, right |-> r, bottom |-> b]

RectWidth(r) == r.right - r.left

RectHeight(r) == r.bottom - r.top

Min(a, b) == IF a < b THEN a ELSE b

Max(a, b) == IF a > b THEN a ELSE b

\* ------------------------------------------------------------- unused width of a group
\* What the function reads of a child: its requested rectangle and unused width.
MockContent(req, d) == [requested |-> req, unused_width |-> d]

\* The footprint without the centring: the slack taken off the right only.
FootprintFlushLeft(g) ==
    [left |-> g.requested.left, right |-> g.requested.right - g.unused_width]

\* `left = g.requested.left + d // 2`, `right = g.requested.right - d + d // 2`
Footprint(g) ==
    [left |-> g.requested.left + (g.unused_width \div 2),
     right |-> g.requested.right - g.unused_width + (g.unused_width \div 2)]

\* The indices `range(int(left - ox), int(right - ox))` of a child.
StripRange(g, bounds) ==
    (Footprint(g).left - bounds.left)..(Footprint(g).right - bounds.left - 1)

\* `used[i] = 1` on a bytearray of length w: a negative index counts from the
\* end, an index outside -w..w-1 raises IndexError.
IndexOutOfRange(i, w) == i >= w \/ i < 0 - w

UsedIndex(i, w) == IF i < 0 THEN i + w ELSE i

\* _unused_horizontal_strip
unused_horizontal_strip(group, bounds) ==
    LET w == RectWidth(bounds)
        raw == UNION { StripRange(group[k], bounds) : k \in 1..Len(group) }
    IN  IF w < 0 THEN Raised("ValueError")
        ELSE IF \E i \in raw : IndexOutOfRange(i, w) THEN Raised("IndexError")
        ELSE Returned(w - Cardinality({ UsedIndex(i, w) : i \in raw }))

\* `sorted(group, key=lambda x: x.requested.top)`: stable, by insertion.
RECURSIVE InsertByTop(_, _)
InsertByTop(sorted, g) ==
    IF sorted = << >> THEN <<g>>
    ELSE IF sorted[Len(sorted)].requested.top <= g.requested.top THEN Append(sorted, g)
    ELSE Append(InsertByTop(SubSeq(sorted, 1, Len(sorted) - 1), g), sorted[Len(sorted)])

RECURSIVE SortedByTop(_)
SortedByTop(group) ==
    IF group = << >> THEN << >>
    ELSE InsertByTop(SortedByTop(SubSeq(group, 1, Len(group) - 1)), group[Len(group)])

\* The inner while loop: the first index from idx on whose item does not start
\* above lower.
RECURSIVE BandEnd(_, _, _)
BandEnd(items, idx, lower) ==
    IF idx <= Len(items) /\ items[idx].requested.top < lower
    THEN BandEnd(items, idx + 1, lower)
    ELSE idx

\* `_unused_horizontal_strip(items, bounds)`: the list handed to the strip
\* function for a band.
StripItems(items, across) == items

\* The outer while loop from idx on, with unused so far.
RECURSIVE ScanBands(_, _, _, _)
ScanBands(items, idx, unused, bounds) ==
    IF idx > Len(items) THEN Returned(unused)
    ELSE LET nxt == BandEnd(items, idx + 1, items[idx].requested.bottom)
             across == SubSeq(items, idx, nxt - 1)
             strip == unused_horizontal_strip(StripItems(items, across), bounds)
         IN  IF strip.raised # "" THEN strip
             ELSE ScanBands(items, nxt, Min(unused, strip.value), bounds)

\* calculate_unused_width_for_group
calculate_unused_width_for_group(group, bounds) ==
    ScanBands(SortedByTop(group), 1, RectWidth(bounds), bounds)

\* The children of the calls: every rectangle inside 0..MaxCoord across and one
\* of three vertical extents (two of them disjoint), with no slack, an even or
\* an odd slack that fits its width.
KidRects ==
    { Rect(l, v[1], r, v[2]) :
        l \in 0..MaxCoord, r \in 0..MaxCoord, v \in {<<0, 1>>, <<1, 2>>, <<0, 2>>} }

MockKids ==
    { MockContent(q, d) : q \in { k \in KidRects : k.left < k.right }, d \in {0, 2, 3} }

StripKids == { g \in MockKids : g.unused_width <= RectWidth(g.requested) }

\* The bounds of the calls: the whole width, or all but the first column.
StripBounds == { Rect(l, 0, MaxCoord, 2) : l \in {0, 1} }

InitCalls == mode = "calls" /\ Init0

\* calculate_unused_width_for_group is called, once, on a list of n children.
CallUnusedWidth(n) ==
    /\ mode = "calls" /\ call = NoCall
    /\ \E group \in [1..n -> StripKids], bounds \in StripBounds :
        /\ call' = [fn |-> "calculate_unused_width_for_group",
                    args |-> <<group, bounds>>,
                    out |-> calculate_unused_width_for_group(group, bounds)]
        /\ UNCHANGED <<ReadVars, mode, RunVars, TreeVars>>

\* ------------------------------------------------------------- claims: unused width
InsideAcross(g, bounds) ==
    bounds.left <= g.requested.left /\ g.requested.right <= bounds.right

\* The call is of calculate_unused_width_for_group, returned, and every child
\* lies inside the bounds with a slack between 0 and its width.
UnusedWidthCall ==
    /\ call.fn = "calculate_unused_width_for_group"
    /\ call.out.raised = ""
    /\ \A k \in 1..Len(call.args[1]) :
           /\ InsideAcross(call.args[1][k], call.args[2])
           /\ call.args[1][k].unused_width \in 0..RectWidth(call.args[1][k].requested)

\* The columns of the bounds a child covers: [left + d/2, right - d + d/2).
CoveredBy(g) ==
    { c \in g.requested.left..(g.requested.right - 1) :
        /\ g.requested.left + (g.unused_width \div 2) <= c
        /\ c < g.requested.right - g.unused_width + (g.unused_width \div 2) }

\* The columns of the bounds none of the children covers.
Uncovered(group, bounds) ==
    RectWidth(bounds)
    - Cardinality(UNION { CoveredBy(group[k]) : k \in 1..Len(group) })

\* The minimum, over the bands of the sorted children, of the columns the
\* band's own children leave uncovered.
RECURSIVE BandwiseUnused(_, _, _, _)
BandwiseUnused(items, idx, unused, bounds) ==
    IF idx > Len(items) THEN unused
    ELSE LET nxt == BandEnd(items, idx + 1, items[idx].requested.bottom) IN
         BandwiseUnused(items, nxt,
                        Min(unused, Uncovered(SubSeq(items, idx, nxt - 1), bounds)),
                        bounds)

\* C11: for children inside the bounds, calculate_unused_width_for_group returns
\* the minimum over the bands of the columns left uncovered by the children of
\* that band only; for two children without vertical overlap that is the smaller
\* of their single-child results.
C11_MinimumOverBands ==
    UnusedWidthCall =>
        LET group == call.args[1]
            bounds == call.args[2]
        IN  /\ call.out.value = BandwiseUnused(SortedByTop(group), 1, RectWidth(bounds), bounds)
            /\ (Len(group) = 2 /\ (\/ group[1].requested.bottom <= group[2].requested.top
                                   \/ group[2].requested.bottom <= group[1].requested.top)) =>
                   call.out.value = Min(Uncovered(<<group[1]>>, bounds),
                                        Uncovered(<<group[2]>>, bounds))

\* All the children of the call lie in one band.
OneBand(group) ==
    LET items == SortedByTop(group) IN
    Len(items) >= 1 /\ BandEnd(items, 2, items[1].requested.bottom) > Len(items)

\* C12: for children in one band inside the bounds, each with a slack d between
\* 0 and its width, the result is the width of the bounds minus the columns
\* covered by the union of the footprints [left + d/2, right - d + d/2); a single
\* child gives bounds.width - (width - d), two children without slack that tile
\* the bounds give 0, and a second child never increases the result of the first.
C12_OneBandIsUncoveredColumns ==
    (UnusedWidthCall /\ OneBand(call.args[1])) =>
        LET group == call.args[1]
            bounds == call.args[2]
            out == call.out.value
        IN  /\ out = Uncovered(group, bounds)
            /\ Len(group) = 1 =>
                   out = RectWidth(bounds)
                         - (RectWidth(group[1].requested) - group[1].unused_width)
            /\ (/\ Len(group) = 2
                /\ group[1].unused_width = 0 /\ group[2].unused_width = 0
                /\ group[1].requested.left = bounds.left
                /\ group[1].requested.right = group[2].requested.left
                /\ group[2].requested.right = bounds.right) => out = 0
            /\ \A k \in 1..Len(group) :
                   out <= calculate_unused_width_for_group(<<group[k]>>, bounds).value

\* Two overlapping children of one band, one with an odd slack, leave columns
\* uncovered.
C12_Witness ==
    /\ UnusedWidthCall /\ OneBand(call.args[1])
    /\ Len(call.args[1]) = 2
    /\ call.args[1][1].unused_width = 3
    /\ call.args[1][2].unused_width = 0
    /\ call.args[1][1].requested.top # call.args[1][2].requested.top
    /\ call.out.value = 1

\* ------------------------------------------------------------- the strip on its own
\* The children of the strip calls: every rectangle inside 0..MaxCoord across,
\* with an overflow of one or two columns, no slack, or a slack that fits.
OverflowKids ==
    { g \in { MockContent(q, d) :
                q \in { k \in KidRects : k.left < k.right /\ k.top = 0 /\ k.bottom = 2 },
                d \in (0 - 2)..2 } :
        g.unused_width <= RectWidth(g.requested) }

InitStrips == mode = "strips" /\ Init0

\* _unused_horizontal_strip is called, once, on a list of n children.
CallUnusedHorizontalStrip(n) ==
    /\ mode = "strips" /\ call = NoCall
    /\ \E group \in [1..n -> OverflowKids], bounds \in StripBounds :
        /\ call' = [fn |-> "_unused_horizontal_strip",
                    args |-> <<group, bounds>>,
                    out |-> unused_horizontal_strip(group, bounds)]
        /\ UNCHANGED <<ReadVars, mode, RunVars, TreeVars>>

\* ------------------------------------------------------------- claims: the strip on its own
\* The call is of _unused_horizontal_strip and the requested rectangle of every
\* child lies inside the bounds.
StripCall ==
    /\ call.fn = "_unused_horizontal_strip"
    /\ \A k \in 1..Len(call.args[1]) : InsideAcross(call.args[1][k], call.args[2])

\* The columns of the bounds inside the footprint of some child.
InFootprints(group, bounds) ==
    { c \in bounds.left..(bounds.right - 1) :
        \E k \in 1..Len(group) :
            Footprint(group[k]).left <= c /\ c < Footprint(group[k]).right }

\* C21: when the requested rectangle of every child lies inside the bounds,
\* whatever the sign of its unused width, _unused_horizontal_strip raises
\* nothing, every index it writes is in 0..bounds.width - 1, and it returns a
\* number in 0..bounds.width that is bounds.width minus the columns of the
\* bounds inside some child's footprint.
C21_StripWritesInRange ==
    StripCall =>
        LET group == call.args[1]
            bounds == call.args[2]
            w == RectWidth(bounds)
        IN  /\ call.out.raised = ""
            /\ \A k \in 1..Len(group) :
                   \A i \in StripRange(group[k], bounds) : 0 <= i /\ i < w
            /\ call.out.value \in 0..w
            /\ call.out.value = w - Cardinality(InFootprints(group, bounds))

\* ------------------------------------------------------------- placed content
\* `// 5`: the height of one acceptable break under an image.
ImageBreakHeight == 5

\* `1e9`
Sentinel == 1000000000

\* Rect.move
RectMove(r, dx, dy) == Rect(r.left + dx, r.top + dy, r.right + dx, r.bottom + dy)

\* Rect.resize
RectResize(r, width, height) == Rect(r.left, r.top, r.left + width, r.top + height)

SetMin(S) == CHOOSE x \in S : \A y \in S : x <= y

SetMax(S) == CHOOSE x \in S : \A y \in S : x >= y

\* Rect.union
RectUnion(rs) ==
    Rect(SetMin({ r.left : r \in rs }), SetMin({ r.top : r \in rs }),
         SetMax({ r.right : r \in rs }), SetMax({ r.bottom : r \in rs }))

Range(s) == { s[k] : k \in 1..Len(s) }

RECURSIVE SeqSum(_)
SeqSum(s) == IF s = << >> THEN 0 ELSE s[1] + SeqSum(Tail(s))

\* PlacedContent.__init__; group lists the children of a group, offset is the
\* offset of a path, bare marks the group whose constructor returned before
\* setting any attribute.
PlacedContent(kind, requested, actual) ==
    [kind |-> kind, requested |-> requested, actual |-> actual,
     ok_breaks |-> 0, bad_breaks |-> 0, internal_variance |-> 0,
     unused_width |-> RectWidth(requested) - RectWidth(actual),
     offset |-> <<0, 0>>, group |-> << >>, bare |-> FALSE]

\* _unused_requested_width
unused_requested_width(n) == RectWidth(n.requested) - RectWidth(n.actual)

\* PlacedParagraphContent.__init__; m is what the wrapped paragraph and
\* line_info report.
PlacedParagraphContent(requested, m) ==
    LET actual == IF m.justify
                  THEN RectResize(requested, RectWidth(requested), m.height)
                  ELSE RectResize(requested, RectWidth(requested) - m.unused, m.height)
        n == [PlacedContent("paragraph", requested, requested) EXCEPT
                  !.actual = actual, !.ok_breaks = m.ok, !.bad_breaks = m.bad]
    IN  [n EXCEPT !.unused_width = unused_requested_width(n)]

\* PlacedImageContent.__init__; m is the drawn size of the wrapped image.
PlacedImageContent(requested, m) ==
    LET n == [PlacedContent("image", requested, requested) EXCEPT
                  !.actual = RectResize(requested, m.width, m.height)]
    IN  [n EXCEPT !.unused_width = unused_requested_width(n)]

\* PlacedTableContent.__init__; m is the size of the wrapped table and what
\* calculate_issues reports.
PlacedTableContent(requested, m) ==
    LET n == [PlacedContent("table", requested, requested) EXCEPT
                  !.actual = RectResize(requested, m.width, m.height),
                  !.ok_breaks = m.ok, !.bad_breaks = m.bad,
                  !.internal_variance = SetMax(Range(m.unused)) - SetMin(Range(m.unused))]
    IN  [n EXCEPT !.unused_width = Max(SeqSum(m.unused), unused_requested_width(n))]

\* PlacedRectContent.__init__
PlacedRectContent(bounds) == PlacedContent("rect", bounds, bounds)

\* PlacedPathContent.__init__
PlacedPathContent(bounds) == PlacedContent("path", bounds, bounds)

\* ErrorContent.__init__
ErrorContent(bounds) == PlacedContent("error", bounds, bounds)

\* The group whose list of children is empty: no attribute but group is set.
BareGroup == [PlacedContent("group", Rect(0, 0, 0, 0), Rect(0, 0, 0, 0)) EXCEPT !.bare = TRUE]

\* `if p`: a group is false when it has no children (__len__), any other node true.
NodeTruthy(n) == n.kind = "group" => Len(n.group) > 0

RECURSIVE KeepTruthy(_, _)
KeepTruthy(ns, kids) ==
    IF kids = << >> THEN << >>
    ELSE IF NodeTruthy(ns[kids[1]]) THEN <<kids[1]>> \o KeepTruthy(ns, Tail(kids))
    ELSE KeepTruthy(ns, Tail(kids))

\* `if self.requested.width < self.actual.width:`
GroupOverflows(requested, actual) == RectWidth(requested) < RectWidth(actual)

\* PlacedGroupContent.__init__ up to the notification of the children: the new
\* node, or the exception of the unused-width computation.
GroupNode(ns, kids, requested, actualArg) ==
    LET group == KeepTruthy(ns, kids)
        actual == IF actualArg # None THEN actualArg[1]
                  ELSE RectUnion({ ns[k].actual : k \in Range(group) })
        unused == IF GroupOverflows(requested, actual)
                  THEN Returned(RectWidth(requested) - RectWidth(actual))
                  ELSE calculate_unused_width_for_group([k \in 1..Len(group) |-> ns[group[k]]],
                                                        requested)
    IN  IF group = << >> THEN Returned(BareGroup)
        ELSE IF unused.raised # "" THEN unused
        ELSE Returned([PlacedContent("group", requested, actual) EXCEPT
                          !.group = group,
                          !.ok_breaks = SeqSum([k \in 1..Len(group) |-> ns[group[k]].ok_breaks]),
                          !.bad_breaks = SeqSum([k \in 1..Len(group) |-> ns[group[k]].bad_breaks]),
                          !.unused_width = unused.value])

\* parent_sized of node id, and of the children kids[i..] of a group.
RECURSIVE parent_sized(_, _, _)
RECURSIVE ParentSizedEach(_, _, _, _)
parent_sized(ns, id, bounds) ==
    LET n == ns[id] IN
    IF n.kind = "image"
    THEN [ns EXCEPT ![id].ok_breaks =
              Max(0, (RectHeight(bounds) - RectHeight(n.actual)) \div ImageBreakHeight)]
    ELSE IF n.kind = "group"
    THEN ParentSizedEach(ns, n.group, 1, IF Len(n.group) > 1 THEN n.requested ELSE bounds)
    ELSE ns

ParentSizedEach(ns, kids, i, bounds) ==
    IF i > Len(kids) THEN ns
    ELSE ParentSizedEach(parent_sized(ns, kids[i], bounds), kids, i + 1, bounds)

\* A group that moves itself and leaves its children where they are.
MoveEachSkipped(ns, kids, i, dx, dy) == ns

\* move of node id, and of the children kids[i..] of a group.
RECURSIVE move(_, _, _, _)
RECURSIVE MoveEach(_, _, _, _, _)
MoveEach(ns, kids, i, dx, dy) ==
    IF i > Len(kids) THEN ns
    ELSE MoveEach(move(ns, kids[i], dx, dy), kids, i + 1, dx, dy)

move(ns, id, dx, dy) ==
    LET n == ns[id]
        moved == [ns EXCEPT ![id].actual = RectMove(n.actual, dx, dy),
                            ![id].requested = RectMove(n.requested, dx, dy),
                            ![id].offset = IF n.kind = "path"
                                           THEN <<n.offset[1] + dx, n.offset[2] + dy>>
                                           ELSE n.offset]
    IN  IF n.kind = "group" THEN MoveEach(moved, n.group, 1, dx, dy) ELSE moved

\* error_from_size with the two weights exchanged.
error_from_size_swapped(n, multiplier_bad, multiplier_good) ==
    IF n.bare THEN Raised("AttributeError")
    ELSE IF n.kind = "error"
    THEN Returned(Sentinel - RectWidth(n.actual) * RectHeight(n.actual))
    ELSE IF n.unused_width < 0 THEN Returned((0 - n.unused_width) * multiplier_good)
    ELSE Returned(n.unused_width * multiplier_bad)

\* error_from_size of PlacedContent and of ErrorContent
error_from_size(n, multiplier_bad, multiplier_good) ==
    IF n.bare THEN Raised("AttributeError")
    ELSE IF n.kind = "error"
    THEN Returned(Sentinel - RectWidth(n.actual) * RectHeight(n.actual))
    ELSE IF n.unused_width < 0 THEN Returned((0 - n.unused_width) * multiplier_bad)
    ELSE Returned(n.unused_width * multiplier_good)

\* error_from_breaks
error_from_breaks(n, multiplier_bad, multiplier_good) ==
    IF n.bare THEN Raised("AttributeError")
    ELSE Returned(multiplier_bad * n.bad_breaks + multiplier_good * n.ok_breaks)

\* error_from_variance
error_from_variance(n, multiplier) ==
    IF n.bare THEN Raised("AttributeError")
    ELSE Returned(multiplier * n.internal_variance)

\* ------------------------------------------------------------- placed content: inputs
\* The leaves: a paragraph that leaves a column and breaks, an image wider and
\* lower than its rectangle, a table, a rectangle, a path and an error marker.
ParagraphLeaf ==
    PlacedParagraphContent(Rect(2, 0, 4, ImageBreakHeight),
                           [justify |-> FALSE, unused |-> 1,
                            height |-> ImageBreakHeight, ok |-> 1, bad |-> 2])

ImageLeaf ==
    PlacedImageContent(Rect(2, ImageBreakHeight, 4, 2 * ImageBreakHeight),
                       [width |-> 3, height |-> 1])

TableLeaf ==
    PlacedTableContent(Rect(0, ImageBreakHeight, 4, 2 * ImageBreakHeight),
                       [width |-> 3, height |-> ImageBreakHeight,
                        ok |-> 1, bad |-> 1, unused |-> <<0, 2>>])

RectLeaf == PlacedRectContent(Rect(0, 0, 4, 2 * ImageBreakHeight))

PathLeaf == PlacedPathContent(Rect(1, 0, 2, ImageBreakHeight))

ErrorLeaf == ErrorContent(Rect(0, 0, 2, ImageBreakHeight))

\* The leaves of a setting: where trees are moved, one leaf of each class with a
\* move of its own and two that inherit it; where they are notified, the
\* ordinary classes; where errors are asked for, the error marker as well.
Leaves(m) ==
    CASE m = "move" -> { ParagraphLeaf, ImageLeaf, TableLeaf, PathLeaf }
      [] m = "tree" -> { ParagraphLeaf, ImageLeaf, TableLeaf, RectLeaf, PathLeaf }
      [] OTHER -> { ParagraphLeaf, ImageLeaf, TableLeaf, RectLeaf, PathLeaf, ErrorLeaf }

\* The rectangles requested for a group: the whole area, and a narrow column.
GroupRects == { Rect(0, 0, 4, 2 * ImageBreakHeight), Rect(0, 0, 1, ImageBreakHeight) }

\* The requested rectangle and the actual one of a group: `actual=None` with
\* either rectangle, or an actual rectangle given by the caller.
GroupArgs ==
    { <<q, None>> : q \in GroupRects }
    \cup { <<Rect(0, 0, 4, 2 * ImageBreakHeight), Some(Rect(0, 0, 3, ImageBreakHeight))>> }

\* The steps a tree is moved by: one step and its inverse.
Offsets == { <<1, ImageBreakHeight>>, <<0 - 1, 0 - ImageBreakHeight>> }

\* The weights of the error functions.
Weights == { 0 - 1, 0, 3 }

\* validity_error for the penalties that are compared with the error marker.
LargeErrVals == { 1, 31, 32 }

\* The nodes no group owns.
Roots(ns) == { k \in 1..Len(ns) : \A j \in 1..Len(ns) : k \notin Range(ns[j].group) }

\* Node id and the nodes below it.
RECURSIVE Subtree(_, _)
Subtree(ns, id) == {id} \cup UNION { Subtree(ns, k) : k \in Range(ns[id].group) }

InitTree == mode = "tree" /\ Init0

InitMove == mode = "move" /\ Init0

InitSize == mode = "size" /\ Init0

\* A leaf is constructed.
NewLeaf ==
    /\ mode \in {"tree", "move", "size"} /\ call = NoCall
    /\ Len(nodes) < MaxNodes
    /\ \E leaf \in Leaves(mode) :
        /\ nodes' = Append(nodes, leaf)
        /\ made' = Append(made, leaf)
    /\ shift' = Append(shift, <<0, 0>>)
    /\ UNCHANGED <<ReadVars, mode, RunVars, CallVars, moves>>

\* PlacedGroupContent(children, requested, actual) over n distinct roots: the
\* group is added and its children are notified, or the constructor raises.
NewGroup(n) ==
    /\ mode \in {"tree", "move", "size"} /\ call = NoCall
    /\ Len(nodes) < MaxNodes
    /\ \E kids \in [1..n -> Roots(nodes)], args \in GroupArgs :
        /\ \A i, j \in 1..n : i # j => kids[i] # kids[j]
        /\ LET requested == args[1]
               actualArg == args[2]
               g == GroupNode(nodes, kids, requested, actualArg)
           IN
           IF g.raised # ""
           THEN /\ call' = [fn |-> "PlacedGroupContent", args |-> <<requested, actualArg>>,
                            out |-> g]
                /\ UNCHANGED <<nodes, made, shift>>
           ELSE LET sized == ParentSizedEach(Append(nodes, g.value), g.value.group, 1, requested)
                    below == Subtree(sized, Len(sized))
                IN  /\ nodes' = sized
                    /\ made' = [k \in 1..Len(sized) |->
                                   IF k \in below THEN sized[k] ELSE made[k]]
                    /\ shift' = [k \in 1..Len(sized) |->
                                    IF k \in below THEN <<0, 0>> ELSE shift[k]]
                    /\ UNCHANGED call
    /\ UNCHANGED <<ReadVars, mode, RunVars, moves>>

\* parent_sized(bounds) is called on a root.
ParentSized ==
    /\ mode = "tree" /\ call = NoCall
    /\ \E id \in Roots(nodes), bounds \in GroupRects :
        LET sized == parent_sized(nodes, id, bounds) IN
        /\ nodes' = sized
        /\ made' = [k \in 1..Len(sized) |->
                       [sized[k] EXCEPT !.requested = made[k].requested,
                                        !.actual = made[k].actual,
                                        !.offset = made[k].offset]]
    /\ UNCHANGED <<ReadVars, mode, RunVars, CallVars, shift, moves>>

\* move(dx, dy) is called on the root of the nodes when they are one tree; a
\* group without attributes raises.
Move ==
    /\ mode = "move" /\ call = NoCall
    /\ moves < MaxMoves
    /\ \E id \in Roots(nodes), d \in Offsets :
        /\ Roots(nodes) = {id}
        /\
           IF nodes[id].bare
           THEN /\ call' = [fn |-> "move", args |-> <<id, d>>, out |-> Raised("AttributeError")]
                /\ UNCHANGED <<nodes, shift, moves>>
           ELSE /\ nodes' = move(nodes, id, d[1], d[2])
                /\ shift' = [k \in 1..Len(shift) |->
                                IF k \in Subtree(nodes, id)
                                THEN <<shift[k][1] + d[1], shift[k][2] + d[2]>>
                                ELSE shift[k]]
                /\ moves' = moves + 1
                /\ UNCHANGED call
    /\ UNCHANGED <<ReadVars, mode, RunVars, made>>

\* stage2func (or stage1func) is called on parameters with a validity error and
\* returns the penalty.
PenaltyReturn ==
    /\ mode = "size" /\ call = NoCall
    /\ \E err \in LargeErrVals :
        /\ Invalid(err)
        /\ call' = [fn |-> "stage2func", args |-> <<err>>, out |-> Returned(Penalty(err))]
    /\ UNCHANGED <<ReadVars, mode, RunVars, TreeVars>>

\* The fraction bits of a double.
FractionBits == 52

RECURSIVE Pow2(_)
Pow2(n) == IF n = 0 THEN 1 ELSE 2 * Pow2(n - 1)

\* `1e6 * (1 + err * err)` in double arithmetic for the validity error 2^-k, as
\* the number of units in the last place (2^-33) by which it exceeds 1e6.
\* err * err is 2^-2k exactly; 1 + 2^-2k is a double up to 2k = FractionBits
\* and rounds to 1.0 beyond; 1e6 is 15625 * 2^6, so the product exceeds 1e6 by
\* 15625 * 2^(39 - 2k) units, rounded to a whole number of them.
PenaltyDouble(k) ==
    IF 2 * k > FractionBits THEN 0
    ELSE IF 2 * k >= 39 THEN RoundHalfEven(15625, Pow2(2 * k - 39))
    ELSE 15625 * Pow2(39 - 2 * k)

\* validity_error of the order of rounding noise: 2^-k for these k.
SmallErrExponents == 24..28

\* stage2func is called on two invalid parameter sets, with the validity errors
\* 2^-ka and 2^-kb, and returns the penalty for each.
PenaltyPair ==
    /\ mode = "size" /\ call = NoCall
    /\ \E ka \in SmallErrExponents, kb \in SmallErrExponents :
        call' = [fn |-> "stage2func, stage2func", args |-> <<ka, kb>>,
                 out |-> Returned(<<PenaltyDouble(ka), PenaltyDouble(kb)>>)]
    /\ UNCHANGED <<ReadVars, mode, RunVars, TreeVars>>

\* error_from_size is called on a node.
CallErrorFromSize ==
    /\ mode = "size" /\ call = NoCall
    /\ \E id \in 1..Len(nodes), bad \in Weights, good \in Weights :
        call' = [fn |-> "error_from_size", args |-> <<id, bad, good>>,
                 out |-> error_from_size(nodes[id], bad, good)]
    /\ UNCHANGED <<ReadVars, mode, RunVars, TreeVars>>

\* ------------------------------------------------------------- claims: placed content
\* The groups that have attributes.
Groups == { g \in 1..Len(nodes) : nodes[g].kind = "group" /\ ~nodes[g].bare }

\* C13: after the construction of a group (the notification of its children
\* included) and after any later parent_sized or move, the group's ok_breaks is
\* the sum of its children's ok_breaks and its bad_breaks the sum of their
\* bad_breaks.
C13_GroupBreaksAreSums ==
    \A g \in Groups :
        LET kids == nodes[g].group IN
        /\ nodes[g].ok_breaks = SeqSum([k \in 1..Len(kids) |-> nodes[kids[k]].ok_breaks])
        /\ nodes[g].bad_breaks = SeqSum([k \in 1..Len(kids) |-> nodes[kids[k]].bad_breaks])

\* The nodes that are neither an error marker nor a group without attributes.
Ordinary == { k \in 1..Len(nodes) : nodes[k].kind # "error" /\ ~nodes[k].bare }

\* The three errors of a node added up.
TotalError(n, bad, good, multiplier) ==
    error_from_breaks(n, bad, good).value + error_from_size(n, bad, good).value
    + error_from_variance(n, multiplier).value

\* C14: the size error of an error marker is greater than the sum of the three
\* errors of any ordinary node, and greater than any validity penalty
\* 1e6 * (1 + err * err) the objective functions return.
C14_SentinelDominates ==
    \A e \in 1..Len(nodes) :
        nodes[e].kind = "error" =>
            LET worst == error_from_size(nodes[e], 0, 0).value IN
            /\ \A k \in Ordinary, bad \in Weights, good \in Weights, multiplier \in Weights :
                   worst > TotalError(nodes[k], bad, good, multiplier)
            /\ call.fn = "stage2func" => worst > call.out.value

\* C15: error_from_size(bad, good) of an ordinary node is -unused_width * bad
\* when unused_width < 0 and unused_width * good otherwise, so it is never
\* negative for weights that are not, and 0 when unused_width is 0; the
\* unused_width of a group is negative exactly when its requested rectangle is
\* narrower than its actual one, and is then the difference of the widths.
C15_SizeErrorAndGroupOverflow ==
    /\ (call.fn = "error_from_size" /\ call.args[1] \in Ordinary) =>
           LET u == nodes[call.args[1]].unused_width
               bad == call.args[2]
               good == call.args[3]
           IN  /\ call.out.raised = ""
               /\ call.out.value = IF u < 0 THEN (0 - u) * bad ELSE u * good
               /\ (bad >= 0 /\ good >= 0) => call.out.value >= 0
               /\ u = 0 => call.out.value = 0
    /\ \A g \in Groups :
           LET requested == RectWidth(nodes[g].requested)
               actual == RectWidth(nodes[g].actual)
           IN  /\ nodes[g].unused_width < 0 <=> requested < actual
               /\ requested < actual => nodes[g].unused_width = requested - actual

\* The size error of an overflowing group was asked for with different weights.
C15_Witness ==
    /\ call.fn = "error_from_size"
    /\ call.args[1] \in Groups
    /\ nodes[call.args[1]].unused_width < 0
    /\ call.args[2] = 3 /\ call.args[3] = 0
    /\ call.out.value = 3 * (0 - nodes[call.args[1]].unused_width)

\* C16: after any moves of the root of a tree, the requested and the actual
\* rectangle of the root and of every node below it are translated by the same
\* sum of the offsets; widths, heights, ok_breaks, bad_breaks, unused_width and
\* internal_variance are as before the moves, and a move followed by its
\* inverse restores every rectangle.
C16_MoveTranslatesTree ==
    \A r \in Roots(nodes) : \A k \in Subtree(nodes, r) :
        ~nodes[k].bare =>
            /\ shift[k] = shift[r]
            /\ nodes[k].requested = RectMove(made[k].requested, shift[r][1], shift[r][2])
            /\ nodes[k].actual = RectMove(made[k].actual, shift[r][1], shift[r][2])
            /\ RectWidth(nodes[k].requested) = RectWidth(made[k].requested)
            /\ RectHeight(nodes[k].requested) = RectHeight(made[k].requested)
            /\ RectWidth(nodes[k].actual) = RectWidth(made[k].actual)
            /\ RectHeight(nodes[k].actual) = RectHeight(made[k].actual)
            /\ nodes[k].ok_breaks = made[k].ok_breaks
            /\ nodes[k].bad_breaks = made[k].bad_breaks
            /\ nodes[k].unused_width = made[k].unused_width
            /\ nodes[k].internal_variance = made[k].internal_variance
            /\ shift[r] = <<0, 0>> =>
                   /\ nodes[k].requested = made[k].requested
                   /\ nodes[k].actual = made[k].actual

\* A group in a group was moved twice by the same step.
C16_Witness ==
    /\ Len(nodes) = 3
    /\ nodes[3].group = <<2>> /\ nodes[2].group = <<1>>
    /\ moves = 2
    /\ shift[1] = <<2, 2 * ImageBreakHeight>>
    /\ nodes[1].requested = RectMove(made[1].requested, 2, 2 * ImageBreakHeight)

\* ------------------------------------------------------------- codec calls
\* _to_fraction that exchanges malformed bounds instead of raising.
ToFractionOutcomeSwapped(x, a, b) ==
    IF BoundsError(a, b) THEN Returned(to_fraction(x, b, a)) ELSE Returned(to_fraction(x, a, b))

\* _to_fraction: the fraction, or the ValueError of malformed bounds.
ToFractionOutcome(x, a, b) ==
    IF BoundsError(a, b) THEN Raised("ValueError") ELSE Returned(to_fraction(x, a, b))

\* _from_fraction: the integer, or the ValueError of malformed bounds.
FromFractionOutcome(x, a, b) ==
    IF BoundsError(a, b) THEN Raised("ValueError") ELSE Returned(from_fraction(x, a, b))

\* _from_fraction(_to_fraction(x, a, b), a, b)
ThereAndBack(x, a, b) ==
    LET f == ToFractionOutcome(x, a, b) IN
    IF f.raised # "" THEN f ELSE FromFractionOutcome(f.value, a, b)

\* _array2params(_params2array(p), p): the list comprehension raises at its
\* first element, and not at all without one.
ParamsThereAndBack(p) ==
    IF OptLen(p) > 0 /\ ToFractionOutcome(p.value[1], p.low, p.high).raised # ""
    THEN Raised("ValueError")
    ELSE Returned(array2params(params2array(p), p))

\* The integers and fractions the codec is called with: inside and outside the
\* bounds, inside and outside [0, 1].
CodecInts == (0 - 1)..(MaxHigh + 1)

CodecFracs == { Frac(n, d) : n \in (0 - 1)..(FracDen + 1), d \in 1..FracDen }

\* Parameter sets of up to two axes with their values inside well-formed bounds.
CodecParams ==
    UNION { { OptParams(v, b[1], b[2]) : v \in UNION { ValueTuples(b[1], b[2], n) : n \in 0..2 } } :
            b \in CodecInts \X CodecInts }

\* One codec function is called, before run.
CallToFraction ==
    /\ mode = "free" /\ pc[1] = "idle" /\ call = NoCall
    /\ \E x \in CodecInts, a \in CodecInts, b \in CodecInts :
        call' = [fn |-> "_to_fraction", args |-> <<x, a, b>>,
                 out |-> ToFractionOutcome(x, a, b)]
    /\ UNCHANGED <<ReadVars, mode, RunVars, TreeVars>>

CallFromFraction ==
    /\ mode = "free" /\ pc[1] = "idle" /\ call = NoCall
    /\ \E x \in CodecFracs, a \in CodecInts, b \in CodecInts :
        call' = [fn |-> "_from_fraction", args |-> <<x, a, b>>,
                 out |-> FromFractionOutcome(x, a, b)]
    /\ UNCHANGED <<ReadVars, mode, RunVars, TreeVars>>

\* An integer is converted to its fraction and back.
CallThereAndBack ==
    /\ mode = "free" /\ pc[1] = "idle" /\ call = NoCall
    /\ \E x \in CodecInts, a \in CodecInts, b \in CodecInts :
        call' = [fn |-> "_from_fraction(_to_fraction)", args |-> <<x, a, b>>,
                 out |-> ThereAndBack(x, a, b)]
    /\ UNCHANGED <<ReadVars, mode, RunVars, TreeVars>>

\* A parameter set is converted to its array and back.
CallParamsThereAndBack ==
    /\ mode = "free" /\ pc[1] = "idle" /\ call = NoCall
    /\ \E p \in CodecParams :
        call' = [fn |-> "_array2params(_params2array)", args |-> <<p>>,
                 out |-> ParamsThereAndBack(p)]
    /\ UNCHANGED <<ReadVars, mode, RunVars, TreeVars>>

\* C20: of two trials with validity errors 0 < a < b the first is answered with
\* the smaller penalty, and every penalty is greater than 1e6.
C20_PenaltyStrictlyMonotone ==
    call.fn = "stage2func, stage2func" =>
        LET ka == call.args[1]
            kb == call.args[2]
            pa == call.out.value[1]
            pb == call.out.value[2]
        IN  /\ ka > kb => pa < pb
            /\ pa > 0 /\ pb > 0

C18_DegenerateAxis ==
    /\ (call.fn = "_to_fraction" /\ call.args[2] = call.args[3]) =>
           call.out.raised = "" /\ call.out.value = <<1, 2>>
    /\ (call.fn = "_from_fraction" /\ call.args[2] = call.args[3]) =>
           call.out.raised = "" /\ call.out.value = call.args[2]

\* A fraction above 1 was converted on a degenerate axis.
C18_Witness ==
    /\ call.fn = "_from_fraction"
    /\ call.args = <<<<FracDen + 1, FracDen>>, 1, 1>>
    /\ call.out.raised = "" /\ call.out.value = 1

\* C19: with low > high both codec directions raise, whatever their input, and a
\* run or minimization on a parameter set with such bounds ends with the error
\* before any trial is evaluated.
C19_MalformedBoundsRaise ==
    /\ (call.fn \in {"_to_fraction", "_from_fraction"} /\ call.args[2] > call.args[3]) =>
           call.out.raised = "ValueError"
    /\ \A i \in Frames :
           /\ (pc[i] # "idle" /\ x1init[i].low > x1init[i].high) =>
                  /\ pc[i] = "raised"
                  /\ evals[i] = 0
                  /\ trials1[i] = << >>
                  /\ result[i] = NoResult
           /\ (cur[i] # NoCur /\ cur[i].p2 # NoParams /\ cur[i].p2.low > cur[i].p2.high) =>
                  /\ pc[i] = "raised"
                  /\ trials2[i] = << >>
                  /\ result[i] = NoResult

\* run was called with malformed bounds and raised.
C19_Witness ==
    /\ pc[1] = "raised"
    /\ x1init[1].low > x1init[1].high
    /\ evals[1] = 0

\* ------------------------------------------------------------- the sheet reader
\* A Block of model.py, as the reader uses it: how often each of its methods
\* was called, and whether `image` was assigned.
Block == [add_title |-> 0, add_txt_to_title |-> 0, add_content |-> 0,
          add_txt_to_run |-> 0, image |-> FALSE]

\* `self.status.block.<method>(...)`, on a block that is not None.
block_call(v, method) == [v EXCEPT !.status.block[1][method] = @ + 1]

\* Status.enter: the node goes on the stack.  Of a node on the stack only its
\* class is asked for, to choose depart_section or unknown_departure.
enter(v, cls) == [v EXCEPT !.status.stack = Append(@, cls)]

\* Status.depart, for the node entered last.
depart(v) == [v EXCEPT !.status.stack = SubSeq(@, 1, Len(@) - 1)]

\* Status.finish_section: self is the Status, so `self.state = State.READY`
\* sets an attribute of the Status.
finish_section(v) ==
    [v EXCEPT !.status.state = "READY", !.status.section = None, !.status.block = None]

\* SheetVisitor.ensure_section
ensure_section(v) ==
    IF v.status.section = None
    THEN [v EXCEPT !.status.section = Some(v.sheet + 1), !.sheet = @ + 1, !.state = "READY"]
    ELSE v

\* SheetVisitor.ensure_block
ensure_block(v) ==
    IF v.status.block = None
    THEN [ensure_section(v) EXCEPT !.status.block = Some(Block)]
    ELSE v

\* The text of a comment, by what parse_directive makes of it.
Comments == { "", "no tag", "section", "title", "style", "other" }

\* The handlers that leave a visitor in state READY in that state.
KeepReady ==
    { "visit_transition", "depart_section", "visit_section", "visit_paragraph",
      "visit_comment", "visit_image", "unknown_visit", "unknown_departure" }

\* The visitor is within the bounds: nodes entered, sections added, calls made
\* on the current block.
Bounded(v) ==
    /\ Len(v.status.stack) <= MaxDepth
    /\ v.sheet <= MaxSections
    /\ v.status.block # None =>
           LET b == v.status.block[1] IN
           b.add_title + b.add_txt_to_title + b.add_content + b.add_txt_to_run
               <= MaxBlockCalls

\* The walk calls a handler, which leaves the visitor as v and lets out the
\* exception e ("" for none).  finished: the handler called finish_section.
Handle(handler, finished, v, e) ==
    /\ Bounded(v)
    /\ visitor' = v
    /\ raised' = e
    /\ last' = [handler |-> handler,
                finished |-> finished,
                pending |-> finished \/ (last.pending /\ handler \in KeepReady),
                after_finish |-> last.pending]
    /\ UNCHANGED <<mode, RunVars, CallVars, TreeVars>>

\* The walk enters a node: it goes on.
Entering == mode = "read" /\ raised = ""

\* The walk leaves the node entered last, of class cls: after a handler that
\* returned, that skipped the children, or that stopped the walk (the nodes
\* entered are still left).
Leaving(cls) ==
    /\ mode = "read" /\ raised \in {"", "SkipChildren", "StopTraversal"}
    /\ visitor.status.stack # << >>
    /\ visitor.status.stack[Len(visitor.status.stack)] = cls

InitRead == mode = "read" /\ Init0

\* SheetVisitor.visit_comment
visit_comment ==
    /\ Entering
    /\ \E txt \in Comments :
        LET e == enter(visitor, "node") IN
        CASE txt = "" -> Handle("visit_comment", FALSE, e, "")
          [] txt = "no tag" -> Handle("visit_comment", FALSE, e, "ValueError")
          [] txt = "section" ->
                 Handle("visit_comment", FALSE,
                        [e EXCEPT !.section_layout_method = "section"], "SkipChildren")
          [] txt = "title" ->
                 Handle("visit_comment", FALSE,
                        [e EXCEPT !.title_display_method = "title"], "SkipChildren")
          [] txt = "style" ->
                 Handle("visit_comment", FALSE, [e EXCEPT !.style = "style"], "SkipChildren")
          [] OTHER -> Handle("visit_comment", FALSE, e, "ValueError")

\* SheetVisitor.visit_title; styles: the title reads 'styles'.
visit_title ==
    /\ Entering
    /\ \E styles \in BOOLEAN :
        LET e == enter(visitor, "node") IN
        IF styles THEN Handle("visit_title", FALSE, e, "StopTraversal")
        ELSE Handle("visit_title", FALSE,
                    [block_call(ensure_block(e), "add_title") EXCEPT !.state = "IN_TITLE"], "")

\* SheetVisitor.visit_term
visit_term ==
    /\ Entering
    /\ Handle("visit_term", FALSE,
              [block_call(ensure_block(enter(visitor, "node")), "add_title")
                  EXCEPT !.state = "IN_TITLE"], "")

\* SheetVisitor.visit_transition
visit_transition ==
    /\ Entering
    /\ Handle("visit_transition", TRUE, finish_section(enter(visitor, "node")), "")

\* SheetVisitor.depart_section
depart_section ==
    /\ Leaving("section")
    /\ Handle("depart_section", TRUE, finish_section(depart(visitor)),
              IF raised = "SkipChildren" THEN "" ELSE raised)

\* SheetVisitor.visit_section
visit_section ==
    /\ Entering
    /\ LET e == enter(visitor, "section") IN
       Handle("visit_section", e.status.block # None,
              ensure_section(IF e.status.block # None THEN finish_section(e) ELSE e), "")

\* SheetVisitor.visit_paragraph
visit_paragraph ==
    /\ Entering
    /\ LET e == enter(visitor, "node") IN
       Handle("visit_paragraph", FALSE,
              IF e.state = "IN_CONTENT_ITEM" THEN [e EXCEPT !.state = "IN_CONTENT"] ELSE e, "")

\* SheetVisitor.visit_definition_list
visit_definition_list ==
    /\ Entering
    /\ Handle("visit_definition_list", FALSE,
              [enter(visitor, "node") EXCEPT !.status.block = None, !.state = "READY"], "")

\* SheetVisitor.visit_definition_list_item
visit_definition_list_item ==
    /\ Entering
    /\ Handle("visit_definition_list_item", FALSE,
              [enter(visitor, "node") EXCEPT !.status.block = None, !.state = "READY"], "")

\* SheetVisitor.visit_definition
visit_definition ==
    /\ Entering
    /\ Handle("visit_definition", FALSE,
              [enter(visitor, "node") EXCEPT !.state = "IN_CONTENT"], "")

\* SheetVisitor.visit_bullet_list
visit_bullet_list ==
    /\ Entering
    /\ LET e == enter(visitor, "node") IN
       IF e.status.block = None THEN Handle("visit_bullet_list", FALSE, e, "FormatError")
       ELSE Handle("visit_bullet_list", FALSE, [e EXCEPT !.state = "IN_CONTENT"], "")

\* SheetVisitor.visit_list_item
visit_list_item ==
    /\ Entering
    /\ LET e == enter(visitor, "node") IN
       IF e.state \notin {"IN_CONTENT", "IN_CONTENT_ITEM"}
       THEN Handle("visit_list_item", FALSE, e, "FormatError")
       ELSE Handle("visit_list_item", FALSE, [e EXCEPT !.state = "IN_CONTENT"], "")

\* SheetVisitor.visit_Text; a method called on a block that is None raises
\* AttributeError.
visit_Text ==
    /\ Entering
    /\ LET e == enter(visitor, "node") IN
       CASE e.state = "READY" -> Handle("visit_Text", FALSE, e, "RuntimeError")
         [] e.state # "READY" /\ e.status.block = None ->
                Handle("visit_Text", FALSE, e, "AttributeError")
         [] e.state = "IN_TITLE" /\ e.status.block # None ->
                Handle("visit_Text", FALSE, block_call(e, "add_txt_to_title"), "")
         [] e.state = "IN_CONTENT" /\ e.status.block # None ->
                Handle("visit_Text", FALSE,
                       [block_call(block_call(e, "add_content"), "add_txt_to_run")
                           EXCEPT !.state = "IN_CONTENT_ITEM"], "")
         [] OTHER -> Handle("visit_Text", FALSE, block_call(e, "add_txt_to_run"), "")

\* SheetVisitor.visit_image
visit_image ==
    /\ Entering
    /\ LET e == enter(visitor, "node")
           b == IF e.status.block = None \/ e.status.block[1].add_content > 0
                THEN [e EXCEPT !.status.block = Some(Block)]
                ELSE e
       IN  Handle("visit_image", FALSE, [b EXCEPT !.status.block[1].image = TRUE], "")

\* SheetVisitor.unknown_visit
unknown_visit ==
    /\ Entering
    /\ Handle("unknown_visit", FALSE, enter(visitor, "node"), "")

\* SheetVisitor.unknown_departure
unknown_departure ==
    /\ Leaving("node")
    /\ Handle("unknown_departure", FALSE, depart(visitor),
              IF raised = "SkipChildren" THEN "" ELSE raised)

\* ------------------------------------------------------------- claims: the sheet reader
\* C22: a handler that finishes a section (visit_transition, depart_section,
\* visit_section with a block open) leaves the visitor in state READY with no
\* block and, unless it is visit_section, no section; and a text that comes
\* after it with no title or term (and nothing else that sets the state) in
\* between is refused with the RuntimeError of the unknown context.
C22_FinishedSectionIsReady ==
    /\ last.finished =>
           /\ visitor.state = "READY"
           /\ visitor.status.block = None
           /\ last.handler # "visit_section" => visitor.status.section = None
    /\ (last.handler = "visit_Text" /\ last.after_finish) => raised = "RuntimeError"

\* ------------------------------------------------------------- specifications
\* One activation of run.
Next ==
    \/ Run(1)
    \/ Stage1Trial(1)
    \/ Stage2Trial(1)
    \/ ScoreReturn(1)
    \/ Stage2Finish(1)
    \/ Stage1Finish(1)

\* A run with a second one nested in its score callback.
NextNested ==
    \E i \in Frames :
        \/ Run(i)
        \/ Stage1Trial(i)
        \/ Stage2Trial(i)
        \/ ScoreReturn(i)
        \/ ScoreRaise(i)
        \/ Stage2Finish(i)
        \/ Stage1Finish(i)

\* A run and its repetition.
NextPure ==
    \E i \in Frames :
        \/ Run(i)
        \/ Stage1Trial(i)
        \/ Stage2Trial(i)
        \/ ScoreReturn(i)
        \/ Stage2Finish(i)
        \/ Stage1Finish(i)

Spec == Init /\ [][Next]_vars

SpecNested == InitNested /\ [][NextNested]_vars

SpecPure == InitPure /\ [][NextPure]_vars

\* A run, or one call of the codec instead.
NextCodec ==
    \/ call = NoCall /\ Next
    \/ CallToFraction
    \/ CallFromFraction
    \/ CallThereAndBack
    \/ CallParamsThereAndBack

SpecCodec == Init /\ [][NextCodec]_vars

\* Calls of calculate_unused_width_for_group.
NextStrip == \E n \in 0..MaxKids : CallUnusedWidth(n)

SpecStrip == InitCalls /\ [][NextStrip]_vars

\* Placement trees are built and notified.
NextTree ==
    \/ NewLeaf
    \/ \E n \in 0..MaxKids : NewGroup(n)
    \/ ParentSized

SpecTree == InitTree /\ [][NextTree]_vars

\* Placement trees are built and moved.
NextMove ==
    \/ NewLeaf
    \/ \E n \in 0..MaxKids : NewGroup(n)
    \/ Move

SpecMove == InitMove /\ [][NextMove]_vars

\* Placement trees are built and the size error of a node is asked for.
NextSize ==
    \/ NewLeaf
    \/ \E n \in 0..MaxKids : NewGroup(n)
    \/ CallErrorFromSize
    \/ PenaltyReturn
    \/ PenaltyPair

SpecSize == InitSize /\ [][NextSize]_vars

\* The strip on its own: one call of _unused_horizontal_strip.
NextFootprint == \E n \in 0..MaxKids : CallUnusedHorizontalStrip(n)

SpecFootprint == InitStrips /\ [][NextFootprint]_vars

\* The sheet reader: docutils walks a document with a SheetVisitor.
NextRead ==
    \/ visit_comment
    \/ visit_title
    \/ visit_term
    \/ visit_transition
    \/ depart_section
    \/ visit_section
    \/ visit_paragraph
    \/ visit_definition_list
    \/ visit_definition_list_item
    \/ visit_definition
    \/ visit_bullet_list
    \/ visit_list_item
    \/ visit_Text
    \/ visit_image
    \/ unknown_visit
    \/ unknown_departure

SpecRead == InitRead /\ [][NextRead]_vars

====
